---- MODULE Spec2Model ----
(***************************************************************************)
(* Model of travel.py: the Monte-Carlo sampler (cruise_tests), the         *)
(* histogram builder (make_histogram) and the D9 resampler                 *)
(* (resample_into_d9), as main() chains them for one (skill, distance)     *)
(* cell, and as each of the two pure functions behaves when called         *)
(* directly on an arbitrary argument.                                      *)
(***************************************************************************)
EXTENDS Integers, Sequences, FiniteSets, TLC

(* ------------------------------ bounds -------------------------------- *)

\* Number of Monte-Carlo samples per cell (15000 in travel.py:36, scaled).
\* For every value below 40 the float expression of travel.py:90-92 equals
\* the exact round-half-even used by Round below.
SAMPLES == 3

\* Largest distance of a cell.
MaxDist == 2

\* Failed draws are only taken while pl is below this cap.
MaxPL == 4

\* Largest number of buckets of a histogram handed directly to the resampler.
MaxBuckets == 3

\* Outcomes of a directly supplied histogram are 1..MaxOutcome and BigOutcome.
MaxOutcome == 3

\* An outcome above the two-digit range.
BigOutcome == 100

\* floor values of a direct call are 1..MaxFloor and BigOutcome.
MaxFloor == 2

\* Running percentages of a directly supplied histogram: first and last
\* percentage of each band 0..MaxBand.
MaxBand == 9

\* Longest outcome sequence handed directly to make_histogram.
MaxResults == 3

(* ----------------------------- input sets ----------------------------- *)

TargetRolls == {-1, 0, 1, 50, 99, 100, 101}

Distances == -1..MaxDist

Rolls == 1..100

Outcomes == (1..MaxOutcome) \cup {BigOutcome}

FloorValues == (1..MaxFloor) \cup {BigOutcome}

RunningPcts == {11 * b + o : b \in 0..MaxBand, o \in {0, 10}}

\* Sample(count=1, running_percentage=rp): a bucket built by a caller.
Sample(k, c, a, r) ==
    [k |-> k, count |-> c, absolute_percentage |-> a, running_percentage |-> r]

RECURSIVE SeqsUpTo(_, _)
SeqsUpTo(S, n) ==
    IF n = 0 THEN {<<>>}
    ELSE LET shorter == SeqsUpTo(S, n - 1)
         IN shorter \cup {Append(s, x) : s \in {t \in shorter : Len(t) = n - 1}, x \in S}

\* A bucket may follow the buckets of h: the dict is filled from a sorted
\* list (travel.py:76,82) and running_total never decreases (travel.py:92-93).
Follows(h, b) ==
    h = <<>> \/ (h[Len(h)].k < b.k /\ h[Len(h)].running_percentage <= b.running_percentage)

RECURSIVE HistogramsUpTo(_)
HistogramsUpTo(n) ==
    IF n = 0 THEN {<<>>}
    ELSE LET shorter == HistogramsUpTo(n - 1)
             buckets == {Sample(k, 1, 0, r) : k \in Outcomes, r \in RunningPcts}
         IN shorter \cup
            UNION {{Append(h, b) : b \in {c \in buckets : Follows(h, c)}} :
                   h \in {t \in shorter : Len(t) = n - 1}}

Histograms == HistogramsUpTo(MaxBuckets)

(* --------------------------- cruise_tests ----------------------------- *)

Success_strict(roll, target) == roll < target \/ roll = 1

Success_nocrit(roll, target) == roll <= target

\* travel.py:71
Success(roll, target) == roll <= target \/ roll = 1

CruiseStep_lazy(dd, p, roll, target) ==
    IF Success(roll, target) THEN [d |-> dd - 1, pl |-> p]
    ELSE [d |-> dd, pl |-> p + 1]

\* travel.py:70-73: one pass of the while body.
CruiseStep(dd, p, roll, target) ==
    [d  |-> IF Success(roll, target) THEN dd - 1 ELSE dd,
     pl |-> p + 1]

RECURSIVE Insert(_, _)
Insert(s, x) ==
    IF s = <<>> THEN <<x>>
    ELSE IF x < Head(s) THEN <<x>> \o s
    ELSE <<Head(s)>> \o Insert(Tail(s), x)

RECURSIVE Sorted(_)
\* travel.py:76 sorted(results)
Sorted(s) == IF s = <<>> THEN <<>> ELSE Insert(Sorted(SubSeq(s, 1, Len(s) - 1)), s[Len(s)])

(* --------------------------- make_histogram --------------------------- *)

\* Python round(): exact n/m rounded half to even.
Round(n, m) ==
    LET q == n \div m
        r == n % m
    IN IF 2 * r < m THEN q
       ELSE IF 2 * r > m THEN q + 1
       ELSE IF q % 2 = 0 THEN q ELSE q + 1

KeyIndex(h, k) ==
    IF \E i \in 1..Len(h) : h[i].k = k
    THEN CHOOSE i \in 1..Len(h) : h[i].k = k
    ELSE 0

CountInto_reset(h, r) ==
    LET i == KeyIndex(h, r)
    IN IF i = 0 THEN Append(h, Sample(r, 1, 0, 0))
       ELSE [h EXCEPT ![i].count = 1]

\* travel.py:83-86: counts[r].count += 1, or a new Sample(count=1).
CountInto(h, r) ==
    LET i == KeyIndex(h, r)
    IN IF i = 0 THEN Append(h, Sample(r, 1, 0, 0))
       ELSE [h EXCEPT ![i].count = @ + 1]

RECURSIVE CountAll(_, _)
\* travel.py:81-86
CountAll(h, res) ==
    IF res = <<>> THEN h ELSE CountAll(CountInto(h, Head(res)), Tail(res))

RECURSIVE Percentages(_, _, _)
\* travel.py:88-94: buckets i..Len(h) get their percentages, in dict order.
Percentages(h, i, running_total) ==
    IF i > Len(h) THEN h
    ELSE LET a == Round(100 * h[i].count, SAMPLES)
         IN Percentages([h EXCEPT ![i].absolute_percentage = a,
                                  ![i].running_percentage = running_total + a],
                        i + 1, running_total + a)

\* travel.py:79-96
make_histogram(res) == Percentages(CountAll(<<>>, res), 1, 0)

(* -------------------------- resample_into_d9 -------------------------- *)

Slots == 0..8

DictIndex(dict, key) ==
    IF \E i \in 1..Len(dict) : dict[i].k = key
    THEN CHOOSE i \in 1..Len(dict) : dict[i].k = key
    ELSE 0

DictSet_first(dict, key, val) ==
    IF DictIndex(dict, key) = 0 THEN Append(dict, [k |-> key, v |-> val]) ELSE dict

\* dict[key] = val on an insertion-ordered dict: a known key keeps its place.
DictSet(dict, key, val) ==
    LET i == DictIndex(dict, key)
    IN IF i = 0 THEN Append(dict, [k |-> key, v |-> val])
       ELSE [dict EXCEPT ![i].v = val]

RECURSIVE Invert(_, _)
\* travel.py:103-105
Invert(dict, h) ==
    IF h = <<>> THEN dict
    ELSE Invert(DictSet(dict, Head(h).running_percentage, Head(h).k), Tail(h))

\* travel.py:111 math.floor(k / 11)
BandIndex(k) == k \div 11

\* Position a Python list of 9 entries resolves index i to, or -1 for an
\* IndexError: negative indices count from the end.
ListPos(i) ==
    IF i \in Slots THEN i
    ELSE IF i < 0 /\ i >= -9 THEN i + 9
    ELSE -1

RECURSIVE BandWrite(_, _)
\* travel.py:110-116: the IndexError of a band above 8 is swallowed.
BandWrite(res, dict) ==
    IF dict = <<>> THEN res
    ELSE LET p == ListPos(BandIndex(Head(dict).k))
         IN BandWrite(IF p = -1 THEN res ELSE [res EXCEPT ![p] = Head(dict).v],
                      Tail(dict))

\* State of a fill pass: the list, the indices used on it so far and the
\* exception that left the pass.
FillState(res, idx, exc) == [results |-> res, touched |-> idx, raised |-> exc]

RECURSIVE ForwardFrom(_, _, _)
\* travel.py:121-123, for i in range(first, 9)
ForwardFrom(st, i, min_value) ==
    IF i > 8 \/ st.raised # "none" THEN st
    ELSE IF ListPos(i) = -1
         THEN FillState(st.results, st.touched \cup {i}, "IndexError")
    ELSE IF st.results[ListPos(i)] # min_value
         THEN ForwardFrom(FillState(st.results, st.touched \cup {i}, "none"),
                          i + 1, min_value)
    ELSE IF ListPos(i - 1) = -1
         THEN FillState(st.results, st.touched \cup {i, i - 1}, "IndexError")
    ELSE ForwardFrom(FillState([st.results EXCEPT ![ListPos(i)] = st.results[ListPos(i - 1)]],
                               st.touched \cup {i, i - 1}, "none"),
                     i + 1, min_value)

ForwardFill_skip(res, min_value) == FillState(res, {}, "none")

\* travel.py:121-123
ForwardFill(res, min_value) == ForwardFrom(FillState(res, {}, "none"), 1, min_value)

RECURSIVE BackwardFrom(_, _, _)
\* travel.py:125-130, for i in range(first, 0, -1); the handler's "raise i"
\* raises TypeError (an int is not an exception).
BackwardFrom(st, i, min_value) ==
    IF i < 1 \/ st.raised # "none" THEN st
    ELSE IF ListPos(i) = -1
         THEN FillState(st.results, st.touched \cup {i}, "IndexError")
    ELSE IF st.results[ListPos(i)] # min_value
         THEN BackwardFrom(FillState(st.results, st.touched \cup {i}, "none"),
                           i - 1, min_value)
    ELSE IF ListPos(i + 1) = -1
         THEN FillState(st.results, st.touched \cup {i, i + 1}, "TypeError")
    ELSE BackwardFrom(FillState([st.results EXCEPT ![ListPos(i)] = st.results[ListPos(i + 1)]],
                                st.touched \cup {i, i + 1}, "none"),
                      i - 1, min_value)

BackwardFill_from8(res, min_value) == BackwardFrom(FillState(res, {}, "none"), 8, min_value)

\* travel.py:125-130
BackwardFill(res, min_value) == BackwardFrom(FillState(res, {}, "none"), 7, min_value)

Min(a, b) == IF a < b THEN a ELSE b

Clamp_none(res) == res

\* travel.py:133-134
Clamp(res) == [i \in Slots |-> Min(res[i], 99)]

(* --------------------------- state machine ---------------------------- *)

VARIABLES
    entry,                \* the function that was called
    pc,                   \* position in it
    target_roll,          \* cruise_tests arguments
    distance,
    d,                    \* cruise_tests locals
    pl,
    draws,                \* random.randint calls of the current trial
    results,
    histo,                \* the histogram, in dict iteration order
    min_value,            \* resample_into_d9 argument
    pl_by_running_total,  \* resample_into_d9 locals
    d9,
    touched,              \* list indices the fill passes have used
    raised                \* exception that left the function, or "none"

vars == <<entry, pc, target_roll, distance, d, pl, draws, results, histo,
          min_value, pl_by_running_total, d9, touched, raised>>

\* travel.py:198-200: main() calls cruise_tests(skill, distance) for a cell.
InitMain ==
    /\ entry = "main"
    /\ pc = "for"
    /\ target_roll \in TargetRolls
    /\ distance \in Distances
    /\ results = <<>>
    /\ histo = <<>>
    /\ min_value = 0

\* make_histogram(results) called on any list of outcomes.
InitHistogram ==
    /\ entry = "make_histogram"
    /\ pc = "make_histogram"
    /\ target_roll = 0
    /\ distance = 0
    /\ results \in SeqsUpTo(0..MaxPL, MaxResults)
    /\ histo = <<>>
    /\ min_value = 0

\* resample_into_d9(histo, min_value) called on any histogram.
InitResample ==
    /\ entry = "resample_into_d9"
    /\ pc = "resample"
    /\ target_roll = 0
    /\ distance = 0
    /\ results = <<>>
    /\ histo \in Histograms
    /\ min_value \in FloorValues

Init ==
    /\ InitMain \/ InitHistogram \/ InitResample
    /\ d = 0
    /\ pl = 0
    /\ draws = 0
    /\ pl_by_running_total = <<>>
    /\ d9 = <<>>
    /\ touched = {}
    /\ raised = "none"

\* travel.py:65-68
BeginTrial ==
    /\ pc = "for"
    /\ Len(results) < SAMPLES
    /\ d' = distance
    /\ pl' = 0
    /\ draws' = 0
    /\ pc' = "while"
    /\ UNCHANGED <<entry, target_roll, distance, results, histo, min_value,
                   pl_by_running_total, d9, touched, raised>>

\* travel.py:69-73
Roll(roll) ==
    /\ pc = "while"
    /\ d > 0
    /\ Success(roll, target_roll) \/ pl < MaxPL
    /\ LET st == CruiseStep(d, pl, roll, target_roll)
       IN /\ d' = st.d
          /\ pl' = st.pl
    /\ draws' = draws + 1
    /\ UNCHANGED <<entry, pc, target_roll, distance, results, histo, min_value,
                   pl_by_running_total, d9, touched, raised>>

\* The draw that always succeeds.
RollOne == Roll(1)

\* travel.py:69,75
AppendCost ==
    /\ pc = "while"
    /\ ~(d > 0)
    /\ results' = Append(results, pl)
    /\ pc' = "for"
    /\ UNCHANGED <<entry, target_roll, distance, d, pl, draws, histo, min_value,
                   pl_by_running_total, d9, touched, raised>>

\* travel.py:76
ReturnSorted ==
    /\ pc = "for"
    /\ ~(Len(results) < SAMPLES)
    /\ results' = Sorted(results)
    /\ pc' = "make_histogram"
    /\ UNCHANGED <<entry, target_roll, distance, d, pl, draws, histo, min_value,
                   pl_by_running_total, d9, touched, raised>>

\* travel.py:79-96; from main() the resampler follows with
\* min_value = distance (travel.py:201-202).
MakeHistogram ==
    /\ pc = "make_histogram"
    /\ histo' = make_histogram(results)
    /\ IF entry = "main"
       THEN pc' = "resample" /\ min_value' = distance
       ELSE pc' = "done" /\ min_value' = min_value
    /\ UNCHANGED <<entry, target_roll, distance, d, pl, draws, results,
                   pl_by_running_total, d9, touched, raised>>

\* travel.py:103-109
InvertHistogram ==
    /\ pc = "resample"
    /\ pl_by_running_total' = Invert(<<>>, histo)
    /\ d9' = [i \in Slots |-> min_value]
    /\ pc' = "bands"
    /\ UNCHANGED <<entry, target_roll, distance, d, pl, draws, results, histo,
                   min_value, touched, raised>>

\* travel.py:110-116
WriteBands ==
    /\ pc = "bands"
    /\ d9' = BandWrite(d9, pl_by_running_total)
    /\ pc' = "forward"
    /\ UNCHANGED <<entry, target_roll, distance, d, pl, draws, results, histo,
                   min_value, pl_by_running_total, touched, raised>>

\* travel.py:121-123
ForwardFillPass ==
    /\ pc = "forward"
    /\ LET st == ForwardFill(d9, min_value)
       IN /\ d9' = st.results
          /\ touched' = touched \cup st.touched
          /\ raised' = st.raised
          /\ pc' = IF st.raised = "none" THEN "backward" ELSE "raised"
    /\ UNCHANGED <<entry, target_roll, distance, d, pl, draws, results, histo,
                   min_value, pl_by_running_total>>

\* travel.py:125-130
BackwardFillPass ==
    /\ pc = "backward"
    /\ LET st == BackwardFill(d9, min_value)
       IN /\ d9' = st.results
          /\ touched' = touched \cup st.touched
          /\ raised' = st.raised
          /\ pc' = IF st.raised = "none" THEN "clamp" ELSE "raised"
    /\ UNCHANGED <<entry, target_roll, distance, d, pl, draws, results, histo,
                   min_value, pl_by_running_total>>

\* travel.py:133-136
ClampPass ==
    /\ pc = "clamp"
    /\ d9' = Clamp(d9)
    /\ pc' = "done"
    /\ UNCHANGED <<entry, target_roll, distance, d, pl, draws, results, histo,
                   min_value, pl_by_running_total, touched, raised>>

Next ==
    \/ BeginTrial
    \/ \E roll \in Rolls : Roll(roll)
    \/ AppendCost
    \/ ReturnSorted
    \/ MakeHistogram
    \/ InvertHistogram
    \/ WriteBands
    \/ ForwardFillPass
    \/ BackwardFillPass
    \/ ClampPass

Spec == Init /\ [][Next]_vars

\* The loop of cruise_tests keeps running, and the draw 1 keeps occurring.
FairSpec == Spec /\ WF_vars(RollOne) /\ WF_vars(AppendCost)

TypeOK ==
    /\ entry \in {"main", "make_histogram", "resample_into_d9"}
    /\ pc \in {"for", "while", "make_histogram", "resample", "bands", "forward",
               "backward", "clamp", "done", "raised"}
    /\ raised \in {"none", "IndexError", "TypeError"}

(* ------------------------------ helpers ------------------------------- *)

\* resample_into_d9 has returned its list.
Returned == pc = "done" /\ entry # "make_histogram"

\* make_histogram has returned histo for the list in results.
HistogramBuilt == entry # "resample_into_d9" /\ pc \notin {"for", "while", "make_histogram"}

Keys(h) == {h[i].k : i \in 1..Len(h)}

RECURSIVE SumCount(_)
SumCount(h) == IF h = <<>> THEN 0 ELSE Head(h).count + SumCount(Tail(h))

\* Buckets in ascending outcome order with a non-decreasing running
\* percentage, and no outcome below the floor value.
WellFormed(h, floor_value) ==
    /\ \A i \in 1..(Len(h) - 1) :
          /\ h[i].k < h[i + 1].k
          /\ h[i].running_percentage <= h[i + 1].running_percentage
    /\ \A i \in 1..Len(h) : h[i].k >= floor_value

InRange(res, lo, hi) ==
    /\ DOMAIN res = Slots
    /\ \A i \in Slots : res[i] \in Int /\ lo <= res[i] /\ res[i] <= hi

BandOf(h, b) == {h[i].k : i \in {j \in 1..Len(h) : BandIndex(h[j].running_percentage) = b}}

Largest(S) == CHOOSE x \in S : \A y \in S : y <= x

(* ------------------------------- claims ------------------------------- *)

\* C1 (as stated): for every histogram and every floor value the returned
\* list has exactly 9 integers, each within [floor_value, 99].
C1_RangeForEveryInput == Returned => InRange(d9, min_value, 99)

\* C1 (amended): when no outcome of the histogram is below floor_value and
\* floor_value is at most 99, the returned list has exactly 9 integers, each
\* within [floor_value, 99]; for any input it has 9 integers, each at most 99.
C1_RangeAboveFloor ==
    Returned =>
        /\ DOMAIN d9 = Slots
        /\ \A i \in Slots : d9[i] \in Int /\ d9[i] <= 99
        /\ (min_value <= 99 /\ \A k \in Keys(histo) : k >= min_value)
              => InRange(d9, min_value, 99)

\* An outcome above 99 was clamped in a list that keeps the floor.
C1_Witness ==
    /\ Returned
    /\ entry = "resample_into_d9"
    /\ min_value <= 99
    /\ \A k \in Keys(histo) : k >= min_value
    /\ \E k \in Keys(histo) : k > 99
    /\ \E i \in Slots : d9[i] = 99
    /\ \E i \in Slots : d9[i] = min_value

\* C2: an empty histogram makes resample_into_d9 signal an error instead of
\* returning a list filled with the floor value.
C2_EmptyHistogramIsError ==
    (entry = "resample_into_d9" /\ histo = <<>> /\ pc \in {"done", "raised"})
        => (pc = "raised" /\ raised # "none")

\* C3: with target_roll in 1..100 and distance >= 1, pl is at least the
\* progress made so far in every state of a trial, and every appended cost
\* is at least distance.
C3_CostAtLeastDistance ==
    (entry = "main" /\ target_roll \in 1..100 /\ distance >= 1) =>
        /\ pc = "while" => pl >= distance - d
        /\ \A i \in 1..Len(results) : results[i] >= distance

\* A trial with a failed draw was appended.
C3_Witness ==
    /\ entry = "main"
    /\ target_roll = 50
    /\ distance = 2
    /\ pc = "for"
    /\ Len(results) >= 1
    /\ results[Len(results)] > distance
    /\ pl = results[Len(results)]

\* C4: with target_roll >= 100 and distance >= 0 every trial ends with a
\* cost equal to distance, whatever is drawn.
C4_CertainSuccess ==
    (entry = "main" /\ target_roll >= 100 /\ distance >= 0) =>
        /\ \A i \in 1..Len(results) : results[i] = distance
        /\ (pc = "while" /\ ~(d > 0)) => pl = distance

\* All trials of a cell with target_roll 100 have ended.
C4_Witness ==
    /\ entry = "main"
    /\ target_roll = 100
    /\ distance = MaxDist
    /\ pc = "make_histogram"
    /\ Len(results) = SAMPLES
    /\ draws = distance

\* C5: every trial that has started ends with its cost appended, for every
\* target_roll (also <= 0), provided the draw 1 keeps occurring; with
\* distance <= 0 it ends with cost 0 and no draw.
C5_TrialTerminates ==
    /\ \A n \in 0..(SAMPLES - 1) :
          (pc = "while" /\ Len(results) = n) ~> (pc = "for" /\ Len(results) = n + 1)
    /\ [](entry = "main" /\ distance <= 0 =>
              /\ draws = 0
              /\ \A i \in 1..Len(results) : results[i] = 0)

\* A trial with target_roll <= 0 and a positive distance has ended.
C5_Witness ==
    /\ entry = "main"
    /\ target_roll <= 0
    /\ distance >= 1
    /\ pc = "for"
    /\ Len(results) >= 1
    /\ draws >= distance

\* C6: the counts of the histogram add up to the number of outcomes, every
\* bucket counts at least 1, and the keys are the distinct outcomes.
C6_CountsAddUp ==
    HistogramBuilt =>
        /\ SumCount(histo) = Len(results)
        /\ \A i \in 1..Len(histo) : histo[i].count >= 1
        /\ Keys(histo) = {results[i] : i \in 1..Len(results)}
        /\ Cardinality(Keys(histo)) = Len(histo)

\* An unsorted list with a repeated outcome was counted.
C6_Witness ==
    /\ entry = "make_histogram"
    /\ pc = "done"
    /\ Len(results) = 3
    /\ results[1] > results[2]
    /\ results[1] = results[3]
    /\ Len(histo) = 2

\* C7: for a well-formed histogram with no outcome below floor_value the
\* returned list is non-decreasing from slot 0 to slot 8.
C7_NonDecreasing ==
    (Returned /\ WellFormed(histo, min_value)) =>
        \A i \in 0..7 : d9[i] <= d9[i + 1]

\* Two bands were written with a gap between them and a gap before them.
C7_Witness ==
    /\ Returned
    /\ WellFormed(histo, min_value)
    /\ Len(histo) >= 2
    /\ BandIndex(histo[1].running_percentage) >= 1
    /\ BandIndex(histo[2].running_percentage) >= BandIndex(histo[1].running_percentage) + 2
    /\ BandIndex(histo[2].running_percentage) <= 7
    /\ d9[0] < d9[8]

\* C8: for a non-empty histogram whose outcomes all differ from floor_value,
\* no slot holds floor_value after the two fill passes.
C8_NoSentinelLeft ==
    (/\ entry # "make_histogram"
     /\ pc = "clamp"
     /\ histo # <<>>
     /\ min_value \notin Keys(histo))
        => \A i \in Slots : d9[i] # min_value

\* C9: the band writes and the two fill passes never raise, the fill passes
\* use no index outside 0..8, and a band above 8 is skipped.
C9_NeverRaises ==
    /\ raised = "none"
    /\ pc # "raised"
    /\ touched \subseteq Slots

\* Both passes have copied, and a bucket of a band above 8 was skipped.
C9_Witness ==
    /\ Returned
    /\ \E k \in 1..Len(histo) : BandIndex(histo[k].running_percentage) > 8
    /\ \E k \in 1..Len(histo) : BandIndex(histo[k].running_percentage) \in 2..6
    /\ min_value \notin Keys(histo)
    /\ {0, 8} \subseteq touched

====
